---- MODULE Spec2Model ----
(***************************************************************************)
(* Crewd: three iterations of one web application kept in one repository.  *)
(*   flask : src/app.py, src/models.py              (Flask + SQLAlchemy)   *)
(*   core  : src/core/views.py, src/core/models.py  (Django, first cut)    *)
(*   crewd : src/crewd/projects, src/crewd/accounts (Django, dashboards)   *)
(* The state is the database of the deployed iteration (one table per      *)
(* variable) and the last HTTP response.  Every request handler is one     *)
(* action; a handler whose interleaving with another request matters is    *)
(* also given as the two database steps it is made of.                     *)
(*                                                                         *)
(* Every request is made by a logged-in user (login_required /             *)
(* LoginRequiredMixin), so the requesting user u is always a row of the    *)
(* user table.  Users are not deleted by any handler.                      *)
(***************************************************************************)
EXTENDS Integers, Sequences, FiniteSets, TLC

VARIABLES
    variant,        \* which iteration is deployed: "flask", "core" or "crewd"
    role,           \* User.role / UserProfile.role, per user
    tech_stack,     \* User.tech_stack, per user: the comma-separated text
    projects,       \* Project table: row id = position
    applications,   \* Application table: row id = position
    memberships,    \* ProjectMembership table (crewd)
    invitations,    \* Invitation table (crewd)
    groups,         \* Group table (crewd): row id = position, value = project id
    messages,       \* Message table (crewd): row id = position
    now,            \* the clock read by timezone.now when a Message is created
    inflight,       \* requests in progress (interleaved handlers only)
    resp            \* the response to the last request

dbVars == <<role, tech_stack, projects, applications, memberships, invitations,
            groups, messages, now>>
vars == <<variant, role, tech_stack, projects, applications, memberships,
          invitations, groups, messages, now, inflight, resp>>

(***************************************************************************)
(* Bounds of the model.                                                    *)
(***************************************************************************)
NumUsers == 2
MaxProjects == 1
MaxApplications == 2

Users == 1..NumUsers

(***************************************************************************)
(* Values of the columns.                                                  *)
(***************************************************************************)
NoRole == "unset"
ROLE_CHOICES == {"applicant", "leader", "company"}
PROJECT_STATUS_CHOICES == {"active", "completed", "cancelled"}
APPLICATION_STATUS_CHOICES == {"pending", "accepted", "rejected"}
INVITATION_STATUS_CHOICES == {"pending", "accepted", "rejected"}

\* Values a client can submit in a "status" or "role" form field: every
\* choice, the empty submission and a value that is no choice at all.
StatusInputs == PROJECT_STATUS_CHOICES \cup APPLICATION_STATUS_CHOICES \cup {"", "bogus"}
RoleInputs == ROLE_CHOICES \cup {"", "admin"}

\* int(text) of the form fields that carry a number: the texts a client can
\* submit and what int() makes of them ("" and "x" raise ValueError).
NumberInputs == {"", "x", "0", "1", "2", "3"}
IsInt(s) == s \in {"0", "1", "2", "3"}
ToInt(s) == CASE s = "0" -> 0 [] s = "1" -> 1 [] s = "2" -> 2 [] s = "3" -> 3

\* HTTP outcomes: render(...) and JsonResponse(...) answer 200, redirect(...)
\* 302, get_object_or_404 404, HttpResponseForbidden 403, JsonResponse(...,
\* status=400) 400, and an exception no handler catches 500.
OK == "200"
REDIRECT == "302"
BAD_REQUEST == "400"
FORBIDDEN == "403"
NOT_FOUND == "404"
SERVER_ERROR == "500"

Response(op, status, body) == [op |-> op, status |-> status, body |-> body]
Respond(op, status) == resp' = Response(op, status, <<>>)

(***************************************************************************)
(* Queries.                                                                *)
(***************************************************************************)
ProjectExists(pid) == pid \in DOMAIN projects
ApplicationExists(aid) == aid \in DOMAIN applications

\* ProjectMembership.objects.filter(user=u, project=pid).exists()
IsMember(u, pid) == \E m \in memberships : m.project = pid /\ m.user = u

\* Application.objects.filter(project=pid, applicant=u).exists()
HasApplied(u, pid) ==
    \E a \in DOMAIN applications :
        applications[a].project = pid /\ applications[a].applicant = u

\* Invitation.objects.filter(project=pid, recipient=u).exists()
IsInvited(u, pid) == \E i \in invitations : i.project = pid /\ i.recipient = u

\* Group.objects.filter(project=pid).exists()
HasGroup(pid) == \E g \in DOMAIN groups : groups[g] = pid

\* Group.objects.get_or_create(project=pid, ...)
GroupGetOrCreate(pid) == IF HasGroup(pid) THEN groups ELSE Append(groups, pid)

(***************************************************************************)
(* Comma-separated texts (Project.required_skills, User.tech_stack).  A    *)
(* text is the sequence of the pieces between its commas; the empty text   *)
(* is <<>>.  A piece is a skill name, possibly padded with blanks, or      *)
(* blank.                                                                  *)
(***************************************************************************)
Strip(tok) ==
    CASE tok = " py" -> "py"
      [] tok = " js" -> "js"
      [] tok = " "   -> ""
      [] OTHER       -> tok

\* ','.join(items) if items else '': joining the single item '' gives ''.
Join(items) == IF items = <<>> \/ items = <<"">> THEN <<>> ELSE items

\* text.split(','): the empty text splits into one empty piece.
Split(text) == IF text = <<>> THEN <<"">> ELSE text

Range(seq) == {seq[i] : i \in DOMAIN seq}

\* Project.get_required_skills_list: [] for the empty text, else the stripped
\* pieces, blank ones included.
get_required_skills_list(p) ==
    IF p.required_skills = <<>> THEN <<>>
    ELSE [i \in DOMAIN Split(p.required_skills) |-> Strip(Split(p.required_skills)[i])]

(***************************************************************************)
(* crewd: projects.                                                        *)
(***************************************************************************)
crewdFrame == UNCHANGED <<variant, role, tech_stack, messages, now, inflight>>

NoChange(op, status) == Respond(op, status) /\ UNCHANGED dbVars /\ UNCHANGED <<variant, inflight>>

\* CreateProjectView.post.  filled: title, description and duration are given.
CreateProjectView_post(u, filled, team_size, skills) ==
    LET op == "CreateProjectView.post"
        pid == Len(projects) + 1
    IN  IF ~filled \/ team_size = ""
        THEN NoChange(op, REDIRECT)
        ELSE IF ~IsInt(team_size) \/ ToInt(team_size) < 1
        THEN NoChange(op, REDIRECT)
        ELSE /\ projects' = Append(projects,
                    [creator |-> u, status |-> "active",
                     team_size |-> ToInt(team_size),
                     required_skills |-> Join(skills)])
             /\ memberships' = memberships \cup
                    {[project |-> pid, user |-> u, role |-> "admin"]}
             /\ groups' = Append(groups, pid)
             /\ Respond(op, REDIRECT)
             /\ UNCHANGED <<applications, invitations>>
             /\ crewdFrame

\* The forms ManageProjectView.post reads, one per action.  team_size
\* "absent" is a form without the field (the handler then takes the
\* project's own value).
ManagePost(action, status, team_size, member_id, skills) ==
    [action |-> action, status |-> status, team_size |-> team_size,
     member_id |-> member_id, required_skills |-> skills]

\* Mutant of UpdatedProjectStatus: the submitted status is stored unchecked.
UpdatedProjectStatus_Unchecked(p, status) == status

\* project.status after action update_status with the submitted status.
UpdatedProjectStatus(p, status) ==
    IF status \in {"active", "completed", "cancelled"} THEN status ELSE p.status

\* Mutant of IsProjectCreator: the project is managed whoever asks.
IsProjectCreator_Anyone(u, pid) == TRUE

\* project.creator == request.user
IsProjectCreator(u, pid) == projects[pid].creator = u

\* Mutant of MayRemove: the creator's membership is deleted like any other.
MayRemove_Creator(member, pid) == TRUE

\* membership.user != project.creator
MayRemove(member, pid) == member # projects[pid].creator

\* ManageProjectView.post
ManageProjectView_post(u, pid, post) ==
    LET op == "ManageProjectView.post"
    IN  IF ~ProjectExists(pid) THEN NoChange(op, NOT_FOUND)
        ELSE IF ~IsProjectCreator(u, pid) THEN NoChange(op, REDIRECT)
        ELSE IF post.action = "update_project"
        THEN LET raw == post.team_size
                 valid == raw = "absent" \/ (IsInt(raw) /\ ToInt(raw) >= 1)
                 size == IF raw = "absent" THEN projects[pid].team_size ELSE ToInt(raw)
             IN  IF ~valid THEN NoChange(op, REDIRECT)
                 ELSE /\ projects' = [projects EXCEPT
                            ![pid].team_size = size,
                            ![pid].required_skills = Join(post.required_skills)]
                      /\ Respond(op, REDIRECT)
                      /\ UNCHANGED <<applications, memberships, invitations, groups>>
                      /\ crewdFrame
        ELSE IF post.action = "update_status"
        THEN /\ projects' = [projects EXCEPT
                    ![pid].status = UpdatedProjectStatus(projects[pid], post.status)]
             /\ Respond(op, REDIRECT)
             /\ UNCHANGED <<applications, memberships, invitations, groups>>
             /\ crewdFrame
        ELSE IF post.action = "remove_member" /\ post.member_id # ""
        THEN IF ~IsInt(post.member_id)
             THEN NoChange(op, SERVER_ERROR)      \* ValueError in the lookup
             ELSE LET found == {m \in memberships : m.project = pid
                                    /\ m.user = ToInt(post.member_id)}
                  IN  /\ memberships' =
                            IF found # {} /\ MayRemove(ToInt(post.member_id), pid)
                            THEN memberships \ found
                            ELSE memberships
                      /\ Respond(op, REDIRECT)
                      /\ UNCHANGED <<projects, applications, invitations, groups>>
                      /\ crewdFrame
        ELSE NoChange(op, REDIRECT)

(***************************************************************************)
(* crewd: applications.                                                    *)
(***************************************************************************)
\* ApplyProjectView.get: shows the form, or turns the user away.
ApplyProjectView_get(u, pid) ==
    LET op == "ApplyProjectView.get"
    IN  IF ~ProjectExists(pid) THEN NoChange(op, NOT_FOUND)
        ELSE IF projects[pid].creator = u THEN NoChange(op, REDIRECT)
        ELSE IF HasApplied(u, pid) THEN NoChange(op, REDIRECT)
        ELSE IF IsMember(u, pid) THEN NoChange(op, REDIRECT)
        ELSE NoChange(op, OK)

\* Mutant of ApplicationIsDuplicate: the table without its unique_together.
ApplicationIsDuplicate_Never(u, pid) == FALSE

\* Application.Meta.unique_together = ('project', 'applicant'): the INSERT
\* of a second row for the pair is refused by the database.
ApplicationIsDuplicate(u, pid) == HasApplied(u, pid)

\* ApplyProjectView.post: Application.objects.create; the table's
\* unique_together (project, applicant) makes a second row an IntegrityError.
ApplyProjectView_post(u, pid) ==
    LET op == "ApplyProjectView.post"
    IN  IF ~ProjectExists(pid) THEN NoChange(op, NOT_FOUND)
        ELSE IF ApplicationIsDuplicate(u, pid) THEN NoChange(op, SERVER_ERROR)
        ELSE /\ applications' = Append(applications,
                    [project |-> pid, applicant |-> u, status |-> "pending"])
             /\ Respond(op, REDIRECT)
             /\ UNCHANGED <<projects, memberships, invitations, groups>>
             /\ crewdFrame

\* The statuses UpdateApplicationView.post and UpdateInvitationView.post take.
AcceptsStatus(status) == status \in {"accepted", "rejected"}

\* ProjectMembership rows after the applicant of an accepted application is
\* added: a row is created only if none exists.
MembersAfterApplicationAccepted(u, pid) ==
    IF IsMember(u, pid) THEN memberships
    ELSE memberships \cup {[project |-> pid, user |-> u, role |-> "member"]}

\* Mutant of CreatedProjectOf: the application is looked up whoever asks.
CreatedProjectOf_Anyone(u, aid) == TRUE

\* project__creator=request.user for the application's project (flask:
\* project.creator_id == current_user.id; core: request.user ==
\* application.project.creator).
CreatedProjectOf(u, aid) == projects[applications[aid].project].creator = u

\* UpdateApplicationView.post
UpdateApplicationView_post(u, aid, status) ==
    LET op == "UpdateApplicationView.post"
    IN  IF ~ApplicationExists(aid) THEN NoChange(op, NOT_FOUND)
        ELSE IF ~CreatedProjectOf(u, aid)
        THEN NoChange(op, NOT_FOUND)
        ELSE IF ~AcceptsStatus(status) THEN NoChange(op, REDIRECT)
        ELSE LET pid == applications[aid].project
                 applicant == applications[aid].applicant
             IN  /\ applications' = [applications EXCEPT ![aid].status = status]
                 /\ memberships' = IF status = "accepted"
                                   THEN MembersAfterApplicationAccepted(applicant, pid)
                                   ELSE memberships
                 /\ groups' = IF status = "accepted" THEN GroupGetOrCreate(pid)
                              ELSE groups
                 /\ Respond(op, REDIRECT)
                 /\ UNCHANGED <<projects, invitations>>
                 /\ crewdFrame

(***************************************************************************)
(* crewd: invitations.  unique_together (project, recipient): a row is     *)
(* named by that pair, which is what its id stands for in the requests.    *)
(***************************************************************************)
InvitationRows(pid, rid) == {i \in invitations : i.project = pid /\ i.recipient = rid}

\* Mutant of OwnProject: the project is looked up without creator=u.
OwnProject_AnyCreator(u, pid) == ProjectExists(pid)

\* get_object_or_404(Project, id=pid, creator=u)
OwnProject(u, pid) == ProjectExists(pid) /\ projects[pid].creator = u

\* Mutant of AlreadyInvolved: only an existing Invitation is looked for.
AlreadyInvolved_InvitedOnly(uid, pid) == IsInvited(uid, pid)

\* The three checks of InviteContributorView.get: the user is already
\* invited, has already applied, or is already a member.
AlreadyInvolved(uid, pid) ==
    IsInvited(uid, pid) \/ HasApplied(uid, pid) \/ IsMember(uid, pid)

\* InviteContributorView.get.  uid may name no user.
InviteContributorView_get(u, pid, uid) ==
    LET op == "InviteContributorView.get"
    IN  IF ~OwnProject(u, pid) THEN NoChange(op, NOT_FOUND)
        ELSE IF uid \notin Users THEN NoChange(op, NOT_FOUND)
        ELSE IF AlreadyInvolved(uid, pid) THEN NoChange(op, REDIRECT)
        ELSE /\ invitations' = invitations \cup
                    {[project |-> pid, sender |-> u, recipient |-> uid,
                      status |-> "pending"]}
             /\ Respond(op, REDIRECT)
             /\ UNCHANGED <<projects, applications, memberships, groups>>
             /\ crewdFrame

\* UpdateInvitationView.post.  invitation.save() is committed before the
\* membership is created (Django's autocommit), and
\* ProjectMembership.objects.create raises IntegrityError on an existing
\* (project, user) row, which no handler catches.
UpdateInvitationView_post(u, pid, rid, status) ==
    LET op == "UpdateInvitationView.post"
        rows == InvitationRows(pid, rid)
    IN  IF rows = {} \/ rid # u THEN NoChange(op, NOT_FOUND)
        ELSE IF ~AcceptsStatus(status) THEN NoChange(op, REDIRECT)
        ELSE /\ invitations' = (invitations \ rows) \cup
                    {[i EXCEPT !.status = status] : i \in rows}
             /\ IF status = "accepted"
                THEN IF IsMember(u, pid)
                     THEN /\ Respond(op, SERVER_ERROR)
                          /\ UNCHANGED <<memberships, groups>>
                     ELSE /\ memberships' = memberships \cup
                                {[project |-> pid, user |-> u, role |-> "member"]}
                          /\ groups' = GroupGetOrCreate(pid)
                          /\ Respond(op, REDIRECT)
                ELSE /\ Respond(op, REDIRECT)
                     /\ UNCHANGED <<memberships, groups>>
             /\ UNCHANGED <<projects, applications>>
             /\ crewdFrame

\* CancelInvitationView.post
CancelInvitationView_post(u, pid, rid) ==
    LET op == "CancelInvitationView.post"
        rows == {i \in InvitationRows(pid, rid) : i.sender = u /\ i.status = "pending"}
    IN  IF rows = {} THEN NoChange(op, NOT_FOUND)
        ELSE /\ invitations' = invitations \ rows
             /\ Respond(op, REDIRECT)
             /\ UNCHANGED <<projects, applications, memberships, groups>>
             /\ crewdFrame

(***************************************************************************)
(* The crewd iteration: projects, applications, invitations, memberships.  *)
(***************************************************************************)
NoResponse == Response("", "", <<>>)

InitDb ==
    /\ role = [u \in Users |-> NoRole]
    /\ tech_stack = [u \in Users |-> <<>>]
    /\ projects = <<>>
    /\ applications = <<>>
    /\ memberships = {}
    /\ invitations = {}
    /\ groups = <<>>
    /\ messages = <<>>
    /\ now = 0
    /\ inflight = {}
    /\ resp = NoResponse

Init == variant = "crewd" /\ InitDb

\* Ids a request can name: every row there can be and one that is none.
ProjectIds == 1..(MaxProjects + 1)
ApplicationIds == 1..(MaxApplications + 1)
UserIds == 1..(NumUsers + 1)

ManagePosts ==
    {ManagePost("update_project", "", t, "", <<>>) : t \in {"absent", "", "x", "0", "1", "2"}}
    \cup {ManagePost("update_status", s, "", "", <<>>) : s \in StatusInputs}
    \cup {ManagePost("remove_member", "", "", m, <<>>) : m \in NumberInputs}
    \cup {ManagePost("", "", "", "", <<>>)}

Next ==
    \/ /\ Len(projects) < MaxProjects
       /\ \E u \in Users, filled \in BOOLEAN, t \in {"", "x", "0", "1", "2"} :
             CreateProjectView_post(u, filled, t, <<>>)
    \/ \E u \in Users, pid \in ProjectIds, post \in ManagePosts :
             ManageProjectView_post(u, pid, post)
    \/ \E u \in Users, pid \in ProjectIds : ApplyProjectView_get(u, pid)
    \/ /\ Len(applications) < MaxApplications
       /\ \E u \in Users, pid \in ProjectIds : ApplyProjectView_post(u, pid)
    \/ \E u \in Users, aid \in ApplicationIds, s \in StatusInputs :
             UpdateApplicationView_post(u, aid, s)
    \/ \E u \in Users, pid \in ProjectIds, uid \in UserIds :
             InviteContributorView_get(u, pid, uid)
    \/ \E u \in Users, pid \in ProjectIds, rid \in Users, s \in StatusInputs :
             UpdateInvitationView_post(u, pid, rid, s)
    \/ \E u \in Users, pid \in ProjectIds, rid \in Users :
             CancelInvitationView_post(u, pid, rid)

Spec == Init /\ [][Next]_vars

(***************************************************************************)
(* crewd: group chat.  A Message takes created_at from timezone.now when   *)
(* it is created; the clock has advanced between two requests handled one  *)
(* after the other.                                                        *)
(***************************************************************************)
MaxGroups == 2
MaxMessages == 3

GroupExists(gid) == gid \in DOMAIN groups

\* Ids of the rows Message.objects.filter(group=gid) selects.
MessagesOfGroup(gid) == {i \in DOMAIN messages : messages[i].group = gid}

\* Mutant of ComesBefore: order_by('-created_at').
ComesBefore_Descending(i, j) == messages[i].created_at > messages[j].created_at

\* order_by('created_at'): row i is listed before row j.
ComesBefore(i, j) == messages[i].created_at < messages[j].created_at

\* The rows of a queryset in the order order_by gives them.
RECURSIVE OrderBy(_)
OrderBy(ids) ==
    IF ids = {} THEN <<>>
    ELSE LET first == CHOOSE i \in ids : \A j \in ids \ {i} : ~ComesBefore(j, i)
         IN  <<first>> \o OrderBy(ids \ {first})

\* Message.objects.filter(group=group).order_by('created_at')
GroupMessages(gid) == OrderBy(MessagesOfGroup(gid))

\* ViewGroupView.get
ViewGroupView_get(u, gid) ==
    LET op == "ViewGroupView.get"
    IN  IF ~GroupExists(gid) THEN NoChange(op, NOT_FOUND)
        ELSE IF ~IsMember(u, groups[gid]) THEN NoChange(op, REDIRECT)
        ELSE /\ resp' = Response(op, OK, GroupMessages(gid))
             /\ UNCHANGED dbVars /\ UNCHANGED <<variant, inflight>>

\* Mutant of MayPost: the membership check is left out.
MayPost_Anyone(u, gid) == TRUE

\* ViewGroupView.post: the check that the sender is a member of the project.
MayPost(u, gid) == IsMember(u, groups[gid])

\* ViewGroupView.post.  content is the submitted 'message' field.
ViewGroupView_post(u, gid, content) ==
    LET op == "ViewGroupView.post"
    IN  IF ~GroupExists(gid) THEN NoChange(op, NOT_FOUND)
        ELSE IF ~MayPost(u, gid) THEN NoChange(op, REDIRECT)
        ELSE IF Strip(content) = "" THEN NoChange(op, REDIRECT)
        ELSE /\ messages' = Append(messages,
                    [group |-> gid, sender |-> u, content |-> Strip(content),
                     created_at |-> now])
             /\ now' = now + 1
             /\ Respond(op, REDIRECT)
             /\ UNCHANGED <<variant, role, tech_stack, projects, applications,
                            memberships, invitations, groups, inflight>>

GroupIds == 1..(MaxGroups + 1)
ChatProjectIds == 1..(MaxGroups + 1)
MessageInputs == {"", " ", "hi"}

\* The chat with the requests that make and unmake members.
NextChat ==
    \/ /\ Len(projects) < MaxGroups
       /\ \E u \in Users : CreateProjectView_post(u, TRUE, "1", <<>>)
    \/ /\ Len(applications) < MaxApplications
       /\ \E u \in Users, pid \in ChatProjectIds : ApplyProjectView_post(u, pid)
    \/ \E u \in Users, aid \in ApplicationIds :
             UpdateApplicationView_post(u, aid, "accepted")
    \/ \E u \in Users, pid \in ChatProjectIds, m \in NumberInputs :
             ManageProjectView_post(u, pid, ManagePost("remove_member", "", "", m, <<>>))
    \/ \E u \in Users, gid \in GroupIds : ViewGroupView_get(u, gid)
    \/ /\ Len(messages) < MaxMessages
       /\ \E u \in Users, gid \in GroupIds, c \in MessageInputs :
             ViewGroupView_post(u, gid, c)

SpecChat == Init /\ [][NextChat]_vars

(***************************************************************************)
(* crewd: roles and the applicant's recommendations.                       *)
(***************************************************************************)
roleFrame == UNCHANGED <<variant, tech_stack, projects, applications, memberships,
                         invitations, groups, messages, now, inflight>>

\* Mutant of RoleIsChoice: any submitted role is stored.
RoleIsChoice_Any(r) == TRUE

\* role in ['applicant', 'leader', 'company']
RoleIsChoice(r) == r \in {"applicant", "leader", "company"}

\* RoleSelectionView.post
RoleSelectionView_post(u, r) ==
    LET op == "RoleSelectionView.post"
    IN  IF RoleIsChoice(r)
        THEN role' = [role EXCEPT ![u] = r] /\ Respond(op, REDIRECT) /\ roleFrame
        ELSE NoChange(op, OK)

\* SwitchRoleView.get
SwitchRoleView_get(u) ==
    LET op == "SwitchRoleView.get"
    IN  IF role[u] = "applicant"
        THEN role' = [role EXCEPT ![u] = "leader"] /\ Respond(op, REDIRECT) /\ roleFrame
        ELSE IF role[u] = "leader"
        THEN role' = [role EXCEPT ![u] = "applicant"] /\ Respond(op, REDIRECT) /\ roleFrame
        ELSE NoChange(op, REDIRECT)

\* TeamLeaderDashboardView.get
TeamLeaderDashboardView_get(u) ==
    /\ role' = [role EXCEPT ![u] = "leader"]
    /\ Respond("TeamLeaderDashboardView.get", OK)
    /\ roleFrame

\* User.get_tech_stack_list: [] for the empty text, else the stripped pieces
\* that are not blank.
get_tech_stack_list(u) ==
    IF tech_stack[u] = <<>> THEN <<>>
    ELSE LET pieces == Split(tech_stack[u])
             stripped == [i \in DOMAIN pieces |-> Strip(pieces[i])]
             NotBlank(t) == t # ""
         IN  SelectSeq(stripped, NotBlank)

\* ProfileView.post (projects/views.py), the tech stack only.  valid: the
\* submitted username, email and passwords pass the handler's checks.
ProfileView_post(u, valid, stack) ==
    LET op == "ProfileView.post"
    IN  IF ~valid THEN NoChange(op, REDIRECT)
        ELSE /\ tech_stack' = [tech_stack EXCEPT ![u] = Join(stack)]
             /\ Respond(op, REDIRECT)
             /\ UNCHANGED <<variant, role, projects, applications, memberships,
                            invitations, groups, messages, now, inflight>>

\* Mutant of matching_skills: the two lists are merged, not intersected.
matching_skills_Union(u, pid) ==
    Range(get_tech_stack_list(u)) \cup Range(get_required_skills_list(projects[pid]))

\* set(user_tech_stack) & set(project_skills)
matching_skills(u, pid) ==
    Range(get_tech_stack_list(u)) \cap Range(get_required_skills_list(projects[pid]))

matching_skill_count(u, pid) == Cardinality(matching_skills(u, pid))

\* Project.objects.filter(status='active').exclude(creator=user), in the
\* order of the rows' ids.
all_projects(u) ==
    LET Wanted(pid) == projects[pid].status = "active" /\ projects[pid].creator # u
    IN  SelectSeq([pid \in 1..Len(projects) |-> pid], Wanted)

\* list.sort(key=matching_skill_count, reverse=True): a stable sort, by
\* insertion of each entry after the entries that count at least as much.
RECURSIVE SortByCountDescending(_, _)
SortByCountDescending(u, list) ==
    IF list = <<>> THEN <<>>
    ELSE LET sorted == SortByCountDescending(u, SubSeq(list, 1, Len(list) - 1))
             last == list[Len(list)]
             NotLess(pid) == matching_skill_count(u, pid) >= matching_skill_count(u, last)
             Less(pid) == matching_skill_count(u, pid) < matching_skill_count(u, last)
         IN  SelectSeq(sorted, NotLess) \o <<last>> \o SelectSeq(sorted, Less)

\* recommended_projects[:6]
RecommendLimit == 6

\* The recommended_projects of ApplicantDashboardView.get.
recommended_projects(u) ==
    IF get_tech_stack_list(u) = <<>> THEN <<>>
    ELSE LET Matches(pid) == matching_skills(u, pid) # {}
             sorted == SortByCountDescending(u, SelectSeq(all_projects(u), Matches))
         IN  SubSeq(sorted, 1, IF Len(sorted) < RecommendLimit THEN Len(sorted)
                                                              ELSE RecommendLimit)

\* ApplicantDashboardView.get: body is the context's recommended_projects.
ApplicantDashboardView_get(u) ==
    /\ role' = [role EXCEPT ![u] = "applicant"]
    /\ resp' = Response("ApplicantDashboardView.get", OK, recommended_projects(u))
    /\ roleFrame

\* The dashboard of an applicant over a table of many projects.
MaxRecProjects == 7

InitRec ==
    /\ variant = "crewd"
    /\ role = [u \in Users |-> "applicant"]
    /\ tech_stack = [u \in Users |-> <<>>]
    /\ projects = <<>> /\ applications = <<>> /\ memberships = {}
    /\ invitations = {} /\ groups = <<>> /\ messages = <<>> /\ now = 0
    /\ inflight = {} /\ resp = NoResponse

\* The required skills submitted by the users who create projects here.
RecSkills(u) == IF u = 1 THEN {<<"py", " js">>}
                ELSE {<<"py">>, <<"py", " js">>, <<"go">>}

NextRec ==
    \/ /\ Len(projects) < MaxRecProjects
       /\ \E u \in Users : \E sk \in RecSkills(u) : CreateProjectView_post(u, TRUE, "1", sk)
    \/ \E u \in Users, s \in {"completed", "bogus"} :
             ManageProjectView_post(u, 1, ManagePost("update_status", s, "", "", <<>>))
    \/ \E valid \in BOOLEAN : ProfileView_post(1, valid, <<"js", " py", " ">>)
    \/ \E u \in Users : ApplicantDashboardView_get(u)

SpecRec == InitRec /\ [][NextRec]_vars

(***************************************************************************)
(* flask (src/app.py).  Its tables are users, projects and applications;   *)
(* the Application table has no unique constraint.                         *)
(***************************************************************************)
appFrame == UNCHANGED <<variant, role, tech_stack, memberships, invitations, groups,
                        messages, now, inflight>>

\* role_selection
role_selection(u, method, r) ==
    LET op == "role_selection"
    IN  IF method = "POST" /\ RoleIsChoice(r)
        THEN role' = [role EXCEPT ![u] = r] /\ Respond(op, REDIRECT) /\ roleFrame
        ELSE NoChange(op, OK)

\* ProjectForm.validate_on_submit: a POST whose fields are given;
\* IntegerField with DataRequired takes no text that is not a number, and
\* not 0.
ProjectFormValid(method, filled, team_size) ==
    method = "POST" /\ filled /\ IsInt(team_size) /\ ToInt(team_size) # 0

\* Mutant of MayCreateProject: create_project without its role check.
MayCreateProject_Anyone(u) == TRUE

\* current_user.role in ['leader', 'company']
MayCreateProject(u) == role[u] \in {"leader", "company"}

\* create_project
create_project(u, method, filled, team_size, skills) ==
    LET op == "create_project"
    IN  IF ~MayCreateProject(u) THEN NoChange(op, REDIRECT)
        ELSE IF ~ProjectFormValid(method, filled, team_size) THEN NoChange(op, OK)
        ELSE /\ projects' = Append(projects,
                    [creator |-> u, status |-> "active",
                     team_size |-> ToInt(team_size),
                     required_skills |-> Join(skills)])
             /\ Respond(op, REDIRECT)
             /\ UNCHANGED applications
             /\ appFrame

\* ApplicationForm.validate_on_submit: a POST with a message.
ApplicationFormValid(method, message) == method = "POST" /\ message # ""

\* Mutant of IsApplicant: apply_project without its role check.
IsApplicant_Anyone(u) == TRUE

\* current_user.role == 'applicant' (core: request.user.profile.role)
IsApplicant(u) == role[u] = "applicant"

\* apply_project up to its form: the answer it gives without storing
\* anything, or "store" when it goes on to add the Application.
apply_project_check(u, pid, method, message) ==
    IF ~IsApplicant(u) THEN REDIRECT
    ELSE IF ~ProjectExists(pid) THEN NOT_FOUND
    ELSE IF HasApplied(u, pid) THEN REDIRECT
    ELSE IF ApplicationFormValid(method, message) THEN "store"
    ELSE OK

\* db.session.add(new_application); db.session.commit()
apply_project_store(u, pid) ==
    applications' = Append(applications,
        [project |-> pid, applicant |-> u, status |-> "pending"])

\* apply_project, handled without another request in between.
apply_project(u, pid, method, message) ==
    LET op == "apply_project"
        answer == apply_project_check(u, pid, method, message)
    IN  IF answer # "store" THEN NoChange(op, answer)
        ELSE /\ apply_project_store(u, pid)
             /\ Respond(op, REDIRECT)
             /\ UNCHANGED projects
             /\ appFrame

\* Mutant of StatusIsChoice: any submitted status is stored.
StatusIsChoice_Any(status) == TRUE

\* new_status in ['pending', 'accepted', 'rejected']
StatusIsChoice(status) == status \in {"pending", "accepted", "rejected"}

\* update_application
update_application(u, aid, status) ==
    LET op == "update_application"
    IN  IF role[u] \notin {"leader", "company"} THEN NoChange(op, REDIRECT)
        ELSE IF ~ApplicationExists(aid) THEN NoChange(op, NOT_FOUND)
        ELSE IF ~CreatedProjectOf(u, aid)
        THEN NoChange(op, REDIRECT)
        ELSE IF ~StatusIsChoice(status) THEN NoChange(op, REDIRECT)
        ELSE /\ applications' = [applications EXCEPT ![aid].status = status]
             /\ Respond(op, REDIRECT)
             /\ UNCHANGED projects
             /\ appFrame

(***************************************************************************)
(* core (src/core/views.py).                                               *)
(***************************************************************************)
\* role_selection
core_role_selection(u, method, r) ==
    LET op == "core.role_selection"
    IN  IF method = "POST" /\ r \in {"applicant", "leader", "company"}
        THEN role' = [role EXCEPT ![u] = r] /\ Respond(op, REDIRECT) /\ roleFrame
        ELSE NoChange(op, OK)

\* create_project: ProjectForm is a ModelForm; any number is a team size.
core_create_project(u, method, filled, team_size, skills) ==
    LET op == "core.create_project"
    IN  IF ~(method = "POST" /\ filled /\ IsInt(team_size)) THEN NoChange(op, OK)
        ELSE /\ projects' = Append(projects,
                    [creator |-> u, status |-> "active",
                     team_size |-> ToInt(team_size),
                     required_skills |-> Join(skills)])
             /\ Respond(op, REDIRECT)
             /\ UNCHANGED applications
             /\ appFrame

\* apply_project: the form's only field, message, may be left empty.
core_apply_project(u, pid, method) ==
    LET op == "core.apply_project"
    IN  IF ~ProjectExists(pid) THEN NoChange(op, NOT_FOUND)
        ELSE IF ~IsApplicant(u) THEN NoChange(op, REDIRECT)
        ELSE IF HasApplied(u, pid) THEN NoChange(op, REDIRECT)
        ELSE IF method # "POST" THEN NoChange(op, OK)
        ELSE /\ applications' = Append(applications,
                    [project |-> pid, applicant |-> u, status |-> "pending"])
             /\ Respond(op, REDIRECT)
             /\ UNCHANGED projects
             /\ appFrame

\* update_application
core_update_application(u, aid, method, status) ==
    LET op == "core.update_application"
    IN  IF ~ApplicationExists(aid) THEN NoChange(op, NOT_FOUND)
        ELSE IF ~CreatedProjectOf(u, aid)
        THEN NoChange(op, FORBIDDEN)
        ELSE IF method = "POST" /\ status \in {"pending", "accepted", "rejected"}
        THEN /\ applications' = [applications EXCEPT ![aid].status = status]
             /\ Respond(op, REDIRECT)
             /\ UNCHANGED projects
             /\ appFrame
        ELSE NoChange(op, REDIRECT)

(***************************************************************************)
(* The three iterations, each alone on its database: roles, projects and   *)
(* applications.                                                           *)
(***************************************************************************)
Methods == {"GET", "POST"}

InitApps == variant \in {"flask", "core", "crewd"} /\ InitDb

NextFlask ==
    \/ \E u \in Users, m \in Methods, r \in RoleInputs : role_selection(u, m, r)
    \/ /\ Len(projects) < MaxProjects
       /\ \E u \in Users, m \in Methods, filled \in BOOLEAN, t \in {"x", "0", "1"} :
             create_project(u, m, filled, t, <<>>)
    \/ /\ Len(applications) < MaxApplications
       /\ \E u \in Users, pid \in ProjectIds, m \in Methods, msg \in {"", "hi"} :
             apply_project(u, pid, m, msg)
    \/ \E u \in Users, aid \in ApplicationIds, s \in StatusInputs :
             update_application(u, aid, s)

NextCore ==
    \/ \E u \in Users, m \in Methods, r \in RoleInputs : core_role_selection(u, m, r)
    \/ /\ Len(projects) < MaxProjects
       /\ \E u \in Users, m \in Methods, filled \in BOOLEAN, t \in {"x", "1"} :
             core_create_project(u, m, filled, t, <<>>)
    \/ /\ Len(applications) < MaxApplications
       /\ \E u \in Users, pid \in ProjectIds, m \in Methods :
             core_apply_project(u, pid, m)
    \/ \E u \in Users, aid \in ApplicationIds, m \in Methods, s \in StatusInputs :
             core_update_application(u, aid, m, s)

NextCrewdRoles ==
    \/ \E u \in Users, r \in RoleInputs : RoleSelectionView_post(u, r)
    \/ \E u \in Users : SwitchRoleView_get(u)
    \/ \E u \in Users : ApplicantDashboardView_get(u)
    \/ \E u \in Users : TeamLeaderDashboardView_get(u)
    \/ /\ Len(projects) < MaxProjects
       /\ \E u \in Users, t \in {"x", "1"} : CreateProjectView_post(u, TRUE, t, <<>>)
    \/ /\ Len(applications) < MaxApplications
       /\ \E u \in Users, pid \in ProjectIds : ApplyProjectView_post(u, pid)
    \/ \E u \in Users, aid \in ApplicationIds, s \in StatusInputs :
             UpdateApplicationView_post(u, aid, s)

NextApps ==
    \/ variant = "flask" /\ NextFlask
    \/ variant = "core" /\ NextCore
    \/ variant = "crewd" /\ NextCrewdRoles

SpecApps == InitApps /\ [][NextApps]_vars

(***************************************************************************)
(* flask: apply_project requests that overlap.  A request that has passed  *)
(* the checks of apply_project is in flight until its commit; the server   *)
(* runs each request on its own thread or process and nothing orders the   *)
(* commit of one against the checks of another.                            *)
(***************************************************************************)
MaxInFlight == 2

\* The first part of apply_project: the queries and the form.
apply_project_begin(u, pid, method, message) ==
    LET op == "apply_project"
        answer == apply_project_check(u, pid, method, message)
    IN  IF answer # "store" THEN NoChange(op, answer)
        ELSE /\ \E w \in 1..MaxInFlight :
                    /\ \A r \in inflight : r.worker # w
                    /\ inflight' = inflight \cup {[worker |-> w, user |-> u, project |-> pid]}
             /\ UNCHANGED dbVars /\ UNCHANGED <<variant, resp>>

\* The second part: the Application is added and committed.
apply_project_commit(r) ==
    /\ r \in inflight
    /\ apply_project_store(r.user, r.project)
    /\ inflight' = inflight \ {r}
    /\ Respond("apply_project", REDIRECT)
    /\ UNCHANGED <<variant, role, tech_stack, projects, memberships, invitations,
                   groups, messages, now>>

InitFlask == variant = "flask" /\ InitDb

NextFlaskRace ==
    \/ \E u \in Users, r \in ROLE_CHOICES : role_selection(u, "POST", r)
    \/ /\ Len(projects) < MaxProjects
       /\ \E u \in Users : create_project(u, "POST", TRUE, "1", <<>>)
    \/ /\ Len(applications) + Cardinality(inflight) < MaxApplications
       /\ \E u \in Users, pid \in ProjectIds, m \in Methods, msg \in {"", "hi"} :
             apply_project_begin(u, pid, m, msg)
    \/ \E r \in inflight : apply_project_commit(r)
    \/ \E u \in Users, aid \in ApplicationIds, s \in APPLICATION_STATUS_CHOICES :
             update_application(u, aid, s)

SpecFlaskRace == InitFlask /\ [][NextFlaskRace]_vars

(***************************************************************************)
(* crewd: tech-stack suggestion.  Two classes are named                    *)
(* AnalyzeTechStackView: the one of projects/views.py, which urls.py       *)
(* routes, and the one of projects/dashboard_views.py.  A description is   *)
(* told by the words it holds; a JSON value by its type and its items.     *)
(***************************************************************************)
Vocabulary == {"website", "database", "backend", "Python", "hello"}

\* The keywords and lower-cased technology names that are substrings of
\* word.lower().
Mentions(word) ==
    CASE word = "website"  -> {"web", "website"}
      [] word = "database" -> {"database", "data"}
      [] word = "backend"  -> {"backend"}
      [] word = "Python"   -> {"python"}
      [] OTHER             -> {}

\* keyword in description.lower()
Contains(description, keyword) ==
    \E w \in description.words : keyword \in Mentions(w)

StringDescriptions ==
    {[type |-> "string", words |-> W, zero |-> FALSE] : W \in SUBSET Vocabulary}

\* Descriptions a JSON body can hold besides strings: 0, 5, [] and
\* ["website"].
OtherDescriptions ==
    {[type |-> "number", words |-> {}, zero |-> z] : z \in BOOLEAN}
    \cup {[type |-> "array", words |-> W, zero |-> FALSE] : W \in {{}, {"website"}}}

EmptyString == [type |-> "string", words |-> {}, zero |-> FALSE]

\* not description
Falsy(description) ==
    CASE description.type = "string" -> description.words = {}
      [] description.type = "array"  -> description.words = {}
      [] OTHER                       -> description.zero

JsonList(items) == [type |-> "list", items |-> items]
JsonString(text) == [type |-> "string", items |-> <<text>>]
JsonNull == [type |-> "null", items |-> <<>>]
\* A list whose order is the iteration order of a Python set.
JsonListOfSet(members) == [type |-> "list", members |-> members]

\* accounts.models.TECH_CHOICES, the entries the vocabulary can bring up.
TECH_CHOICES ==
    <<"Python", "JavaScript", "React", "Node.js", "Django", "Express", "MongoDB",
      "PostgreSQL", "MySQL", "HTML/CSS", "Bootstrap", "Data Science">>

\* str.lower on a technology name.
Lower(tech) ==
    CASE tech = "Python"       -> "python"
      [] tech = "JavaScript"   -> "javascript"
      [] tech = "React"        -> "react"
      [] tech = "Node.js"      -> "node.js"
      [] tech = "Django"       -> "django"
      [] tech = "Express"      -> "express"
      [] tech = "MongoDB"      -> "mongodb"
      [] tech = "PostgreSQL"   -> "postgresql"
      [] tech = "MySQL"        -> "mysql"
      [] tech = "HTML/CSS"     -> "html/css"
      [] tech = "Bootstrap"    -> "bootstrap"
      [] tech = "Data Science" -> "data science"
      [] OTHER                 -> tech

\* keyword_mapping of dashboard_views._fallback_analyze, in its order.
keyword_mapping ==
    << [keyword |-> "web",      techs |-> <<"HTML/CSS", "JavaScript", "React", "Bootstrap">>],
       [keyword |-> "website",  techs |-> <<"HTML/CSS", "JavaScript", "Bootstrap">>],
       [keyword |-> "backend",  techs |-> <<"Python", "Django", "Node.js", "Express">>],
       [keyword |-> "database", techs |-> <<"SQL", "PostgreSQL", "MySQL", "MongoDB">>],
       [keyword |-> "data",     techs |-> <<"Python", "Data Science", "PostgreSQL", "MySQL">>] >>

\* for tech in techs: if tech not in suggested_skills: append
RECURSIVE AppendNew(_, _)
AppendNew(suggested, techs) ==
    IF techs = <<>> THEN suggested
    ELSE AppendNew(IF Head(techs) \in Range(suggested) THEN suggested
                   ELSE Append(suggested, Head(techs)),
                   Tail(techs))

RECURSIVE AddKeywords(_, _, _)
AddKeywords(description, suggested, i) ==
    IF i > Len(keyword_mapping) THEN suggested
    ELSE AddKeywords(description,
                     IF Contains(description, keyword_mapping[i].keyword)
                     THEN AppendNew(suggested, keyword_mapping[i].techs)
                     ELSE suggested,
                     i + 1)

DashboardFallbackLimit == 10

Take(seq, n) == SubSeq(seq, 1, IF Len(seq) < n THEN Len(seq) ELSE n)

\* dashboard_views.AnalyzeTechStackView._fallback_analyze, for a string.
dashboard_fallback_analyze(description) ==
    LET direct == SelectSeq(TECH_CHOICES, LAMBDA tech : Contains(description, Lower(tech)))
    IN  Take(AddKeywords(description, direct, 1), DashboardFallbackLimit)

\* What the external API has done.  dashboard_views: the call raised, the
\* status was not 200, the body was no JSON, choices was empty, the content
\* held no [...], the [...] was no JSON, or it was a JSON array.
DashboardApiOutcomes ==
    {[outcome |-> o, skills |-> <<>>] :
        o \in {"exception", "status", "not_json", "no_choices", "no_array", "bad_array"}}
    \cup {[outcome |-> "array", skills |-> sk] :
            sk \in {<<>>, <<"Python">>, <<"Cobol", "React">>, <<"React", "Python">>}}

\* The request body: no JSON, JSON that is no object, or an object with or
\* without a description.
DashboardBodies ==
    {[json |-> j, has_description |-> FALSE, description |-> EmptyString] :
        j \in {"invalid", "array", "object"}}
    \cup {[json |-> "object", has_description |-> TRUE, description |-> d] :
            d \in StringDescriptions \cup OtherDescriptions}

DashboardOp == "dashboard_views.AnalyzeTechStackView.post"

analyzeFrame == UNCHANGED dbVars /\ UNCHANGED <<variant, inflight>>

\* self._fallback_analyze(description): description.lower() raises for a
\* description that is no string, and nothing catches it.
DashboardFallbackResponse(description) ==
    IF description.type = "string"
    THEN Response(DashboardOp, OK,
                  [key |-> "skills",
                   value |-> JsonList(dashboard_fallback_analyze(description))])
    ELSE Response(DashboardOp, SERVER_ERROR, <<>>)

\* dashboard_views.AnalyzeTechStackView.post
DashboardAnalyzeTechStackView_post(body, api) ==
    /\ resp' =
        IF body.json = "invalid"
        THEN Response(DashboardOp, BAD_REQUEST, [key |-> "error", value |-> JsonString("Invalid JSON")])
        ELSE IF body.json # "object"
        THEN Response(DashboardOp, SERVER_ERROR, <<>>)
        ELSE LET description == IF body.has_description THEN body.description
                                ELSE EmptyString
             IN  IF Falsy(description)
                 THEN Response(DashboardOp, BAD_REQUEST,
                               [key |-> "error",
                                value |-> JsonString("Project description is required")])
                 ELSE IF api.outcome = "array"
                 THEN Response(DashboardOp, OK,
                               [key |-> "skills",
                                value |-> JsonList(SelectSeq(api.skills,
                                              LAMBDA skill : skill \in Range(TECH_CHOICES)))])
                 ELSE DashboardFallbackResponse(description)
    /\ analyzeFrame

\* keyword_map of views._fallback_analyze: three of its rows.
keyword_map ==
    << [keyword |-> "web",      techs |-> {"JavaScript", "HTML", "CSS", "React", "Node.js"}],
       [keyword |-> "backend",  techs |-> {"Python", "Node.js", "Java", "C#"}],
       [keyword |-> "data",     techs |-> {"Python", "R", "SQL", "Pandas", "Jupyter"}] >>

FallbackLimit == 8

\* views.AnalyzeTechStackView._fallback_analyze: the lists it can return.
\* list(set(suggestions)) has the order of a set of strings, which differs
\* from process to process: any FallbackLimit of the suggestions can be
\* the ones kept.
fallback_analyze(description) ==
    LET suggestions == UNION {keyword_map[i].techs :
                                i \in {j \in DOMAIN keyword_map :
                                         Contains(description, keyword_map[j].keyword)}}
    IN  IF suggestions = {}
        THEN {JsonList(<<"JavaScript", "Python", "React", "Node.js", "PostgreSQL">>)}
        ELSE IF Cardinality(suggestions) <= FallbackLimit
        THEN {JsonListOfSet(suggestions)}
        ELSE {JsonListOfSet(kept) :
                kept \in {k \in SUBSET suggestions : Cardinality(k) = FallbackLimit}}

\* views.py: XAI_API_KEY is not set, the client raised (no openai package,
\* no connection, content that is no JSON), or the content was a JSON
\* object with or without 'technologies', or another JSON value.
ApiOutcomes ==
    {[outcome |-> o, value |-> JsonNull] : o \in {"no_key", "exception", "other_object", "other_value"}}
    \cup {[outcome |-> o, value |-> v] :
            o \in {"technologies", "array"},
            v \in {JsonList(<<>>), JsonList(<<"Python", "Flask">>)}}
    \cup {[outcome |-> "technologies", value |-> v] : v \in {JsonString("Python"), JsonNull}}

\* views.AnalyzeTechStackView._analyze_with_grok: the values it can return.
analyze_with_grok(description, api) ==
    IF api.outcome \in {"technologies", "array"} THEN {api.value}
    ELSE fallback_analyze(description)

AnalyzeOp == "AnalyzeTechStackView.post"

\* views.AnalyzeTechStackView.post; request.POST gives a string.
AnalyzeTechStackView_post(description, api) ==
    /\ IF Falsy(description)
       THEN resp' = Response(AnalyzeOp, BAD_REQUEST,
                             [key |-> "error", value |-> JsonString("No description provided")])
       ELSE \E tech_stack_value \in analyze_with_grok(description, api) :
                resp' = Response(AnalyzeOp, OK,
                                 [key |-> "tech_stack", value |-> tech_stack_value])
    /\ analyzeFrame

NextAnalyze ==
    \/ \E description \in StringDescriptions, api \in ApiOutcomes :
            AnalyzeTechStackView_post(description, api)
    \/ \E body \in DashboardBodies, api \in DashboardApiOutcomes :
            DashboardAnalyzeTechStackView_post(body, api)

SpecAnalyze == Init /\ [][NextAnalyze]_vars

(***************************************************************************)
(* crewd: UpdateApplicationView.post requests that overlap with each other *)
(* and with other requests.  The view asks whether the applicant is a      *)
(* member and creates the ProjectMembership in a later statement; a        *)
(* request that has found no membership is in flight until its create.     *)
(***************************************************************************)
\* UpdateApplicationView.post up to its exists() query: the application is
\* saved with the new status; a request that finds the applicant a member,
\* or that rejects, runs to its end.
UpdateApplicationView_begin(u, aid, status) ==
    LET op == "UpdateApplicationView.post"
    IN  IF ~ApplicationExists(aid) THEN NoChange(op, NOT_FOUND)
        ELSE IF ~CreatedProjectOf(u, aid) THEN NoChange(op, NOT_FOUND)
        ELSE IF ~AcceptsStatus(status) THEN NoChange(op, REDIRECT)
        ELSE LET pid == applications[aid].project
                 applicant == applications[aid].applicant
             IN  /\ applications' = [applications EXCEPT ![aid].status = status]
                 /\ IF status = "accepted" /\ ~IsMember(applicant, pid)
                    THEN /\ \E w \in 1..MaxInFlight :
                                /\ \A r \in inflight : r.worker # w
                                /\ inflight' = inflight \cup
                                      {[worker |-> w, user |-> applicant, project |-> pid]}
                         /\ UNCHANGED <<groups, resp>>
                    ELSE /\ groups' = IF status = "accepted" THEN GroupGetOrCreate(pid)
                                      ELSE groups
                         /\ Respond(op, REDIRECT)
                         /\ UNCHANGED inflight
                 /\ UNCHANGED <<variant, role, tech_stack, projects, memberships,
                                invitations, messages, now>>

\* The rest of it: ProjectMembership.objects.create, which the table's
\* unique_together (project, user) refuses with an IntegrityError when the
\* row has appeared since the query, then Group.objects.get_or_create.
UpdateApplicationView_create(r) ==
    LET op == "UpdateApplicationView.post"
    IN  /\ r \in inflight
        /\ inflight' = inflight \ {r}
        /\ IF IsMember(r.user, r.project)
           THEN Respond(op, SERVER_ERROR) /\ UNCHANGED <<memberships, groups>>
           ELSE /\ memberships' = memberships \cup
                      {[project |-> r.project, user |-> r.user, role |-> "member"]}
                /\ groups' = GroupGetOrCreate(r.project)
                /\ Respond(op, REDIRECT)
        /\ UNCHANGED <<variant, role, tech_stack, projects, applications,
                       invitations, messages, now>>

NextAcceptRace ==
    \/ /\ Len(projects) < MaxProjects
       /\ \E u \in Users, t \in {"x", "1", "2"} : CreateProjectView_post(u, TRUE, t, <<>>)
    \/ /\ Len(applications) < MaxApplications
       /\ \E u \in Users, pid \in ProjectIds : ApplyProjectView_post(u, pid)
    \/ \E u \in Users, pid \in ProjectIds, uid \in UserIds :
             InviteContributorView_get(u, pid, uid)
    \/ \E u \in Users, pid \in ProjectIds, rid \in Users, s \in StatusInputs :
             UpdateInvitationView_post(u, pid, rid, s)
    \/ \E u \in Users, aid \in ApplicationIds, s \in StatusInputs :
             UpdateApplicationView_begin(u, aid, s)
    \/ \E r \in inflight : UpdateApplicationView_create(r)

SpecAcceptRace == Init /\ [][NextAcceptRace]_vars

(***************************************************************************)
(* Claims.                                                                 *)
(***************************************************************************)

\* The skills a user's tech stack names, and those a project requires.
UserSkillSet(u) == {Strip(t) : t \in Range(tech_stack[u])} \ {""}
ProjectSkillSet(pid) == {Strip(t) : t \in Range(projects[pid].required_skills)}
SharedSkills(u, pid) == UserSkillSet(u) \cap ProjectSkillSet(pid)

\* The active projects of other users that share a skill with user u.
Recommendable(u) ==
    {pid \in DOMAIN projects :
        /\ projects[pid].status = "active"
        /\ projects[pid].creator # u
        /\ SharedSkills(u, pid) # {}}

\* list is the first RecommendLimit entries of Recommendable(u) ordered by
\* the number of shared skills, descending.
IsRecommendation(u, list) ==
    LET count(pid) == Cardinality(SharedSkills(u, pid))
        all == Recommendable(u)
    IN  /\ Range(list) \subseteq all
        /\ \A i, j \in DOMAIN list : i # j => list[i] # list[j]
        /\ Len(list) = IF Cardinality(all) < RecommendLimit THEN Cardinality(all)
                       ELSE RecommendLimit
        /\ \A i, j \in DOMAIN list : i < j => count(list[i]) >= count(list[j])
        /\ \A pid \in all \ Range(list) : \A i \in DOMAIN list : count(list[i]) >= count(pid)

\* C1: ApplicantDashboardView.get recommends, to a user whose tech stack
\* names a skill, the first 6 of the active projects of other users that
\* share a skill with it, ordered by the number of shared skills,
\* descending; and nothing to a user whose tech stack names none.
C1_Recommendations ==
    [][\A u \in Users :
        (resp'.op = "ApplicantDashboardView.get" /\ ApplicantDashboardView_get(u))
        => IF UserSkillSet(u) = {} THEN resp'.body = <<>>
           ELSE IsRecommendation(u, resp'.body)]_vars

\* C1 witness: six projects are recommended to user 1, the first sharing
\* more skills than the last, and a seventh that qualifies is left out.
C1_Witness ==
    /\ resp.op = "ApplicantDashboardView.get"
    /\ Len(resp.body) = RecommendLimit
    /\ Cardinality(Recommendable(1)) > RecommendLimit
    /\ Range(resp.body) \subseteq Recommendable(1)
    /\ Cardinality(SharedSkills(1, resp.body[1]))
            > Cardinality(SharedSkills(1, resp.body[RecommendLimit]))

\* C3 (as claimed): whenever the recipient of an invitation posts 'accepted'
\* to UpdateInvitationView, the request completes (is answered by the
\* redirect), the invitation is accepted, the recipient has exactly one
\* ProjectMembership for the project and the project has a Group.
C3_AcceptedInvitationCompletes ==
    [][\A u \in Users, pid \in ProjectIds :
        (/\ resp'.op = "UpdateInvitationView.post"
         /\ InvitationRows(pid, u) # {}
         /\ UpdateInvitationView_post(u, pid, u, "accepted"))
        => /\ resp'.status = REDIRECT
           /\ \A i \in InvitationRows(pid, u)' : i.status = "accepted"
           /\ Cardinality({m \in memberships' : m.project = pid /\ m.user = u}) = 1
           /\ HasGroup(pid)']_vars

\* C4: the sender of every Invitation is the creator of its project, and
\* InviteContributorView.get by a user who is not the creator of the
\* project creates no Invitation.
C4_SenderIsCreator ==
    \A i \in invitations : i.sender = projects[i.project].creator

C4_InvitationsOfCreator ==
    /\ []C4_SenderIsCreator
    /\ [][\A u \in Users, pid \in ProjectIds, uid \in UserIds :
            (/\ resp'.op = "InviteContributorView.get"
             /\ ~(ProjectExists(pid) /\ projects[pid].creator = u)
             /\ InviteContributorView_get(u, pid, uid))
            => invitations' = invitations]_vars

\* C4 witness: an invitation is stored and the last request, an invitation
\* by a user who does not own the project, was refused.
C4_Witness ==
    /\ invitations # {}
    /\ resp = Response("InviteContributorView.get", NOT_FOUND, <<>>)

\* C5: every Project has status active, completed or cancelled, and
\* ManageProjectView.post with action update_status leaves the status
\* unchanged when the submitted status is none of the three.
C5_StatusIsChoice ==
    \A pid \in DOMAIN projects : projects[pid].status \in PROJECT_STATUS_CHOICES

C5_ProjectStatus ==
    /\ []C5_StatusIsChoice
    /\ [][\A u \in Users, pid \in DOMAIN projects, s \in StatusInputs :
            (/\ resp'.op = "ManageProjectView.post"
             /\ ManageProjectView_post(u, pid, ManagePost("update_status", s, "", "", <<>>)))
            => /\ projects'[pid].status \in {projects[pid].status, s}
               /\ s \notin PROJECT_STATUS_CHOICES
                    => projects'[pid].status = projects[pid].status]_vars

\* C5 witness: a project whose status a ManageProjectView.post has changed.
C5_Witness ==
    /\ resp.op = "ManageProjectView.post"
    /\ \E pid \in DOMAIN projects : projects[pid].status = "cancelled"

\* C10 (as claimed): no Application exists whose applicant is the creator of
\* its project.
C10_NoApplicationToOwnProject ==
    \A a \in DOMAIN applications :
        applications[a].applicant # projects[applications[a].project].creator

\* C6: ViewGroupView.post creates a Message only when the sender has a
\* ProjectMembership for the group's project at the time of posting; a post
\* by a user without one creates no Message and changes nothing stored.
C6_MessagesFromMembersOnly ==
    [][/\ \A i \in DOMAIN messages' \ DOMAIN messages :
            IsMember(messages'[i].sender, groups[messages'[i].group])
       /\ \A u \in Users, gid \in GroupIds, c \in MessageInputs :
            (/\ resp'.op = "ViewGroupView.post"
             /\ ~(GroupExists(gid) /\ IsMember(u, groups[gid]))
             /\ ViewGroupView_post(u, gid, c))
            => UNCHANGED dbVars]_vars

\* C6 witness: a message is stored whose sender is no longer a member, and
\* the last request, a post by a non-member, was turned away.
C6_Witness ==
    /\ resp = Response("ViewGroupView.post", REDIRECT, <<>>)
    /\ \E i \in DOMAIN messages :
            ~IsMember(messages[i].sender, groups[messages[i].group])

C2_StatusIsChoice ==
    \A a \in DOMAIN applications : applications[a].status \in APPLICATION_STATUS_CHOICES

Accepted(v) == IF v = "crewd" THEN {"accepted", "rejected"}
               ELSE {"pending", "accepted", "rejected"}

C2_ApplicationStatus ==
    /\ []C2_StatusIsChoice
    /\ [][\A a \in DOMAIN applications' \ DOMAIN applications :
            applications'[a].status = "pending"]_vars
    /\ [][\A u \in Users, aid \in DOMAIN applications, s \in StatusInputs :
            (/\ resp'.op \in {"update_application", "core.update_application",
                               "UpdateApplicationView.post"}
             /\ \/ update_application(u, aid, s)
                \/ core_update_application(u, aid, "POST", s)
                \/ UpdateApplicationView_post(u, aid, s))
            => /\ applications'[aid].status \in {applications[aid].status, s}
               /\ s \notin Accepted(variant) => applications' = applications]_vars

\* C2 witness: an application whose status an update has set to rejected.
C2_Witness ==
    /\ resp.op \in {"update_application", "core.update_application",
                     "UpdateApplicationView.post"}
    /\ \E a \in DOMAIN applications : applications[a].status = "rejected"

\* C9 (as claimed): in the Flask app there is at most one Application per
\* (project, applicant) pair, also when apply_project requests overlap.
C9_OneApplicationPerPair ==
    variant = "flask" =>
        \A a, b \in DOMAIN applications :
            (applications[a].project = applications[b].project
             /\ applications[a].applicant = applications[b].applicant) => a = b

\* C8 (as claimed): for every request with a non-empty description,
\* AnalyzeTechStackView.post answers 200 with a list, whatever the external
\* API has done, and never with an error.
C8_AlwaysSkillsList ==
    [][(/\ resp'.op \in {AnalyzeOp, DashboardOp}
        /\ ~(resp'.status = OK /\ resp'.body.value.type = "list"))
       => /\ \A description \in StringDescriptions, api \in ApiOutcomes :
                ~Falsy(description) => ~AnalyzeTechStackView_post(description, api)
          /\ \A body \in DashboardBodies, api \in DashboardApiOutcomes :
                (body.json = "object" /\ body.has_description /\ ~Falsy(body.description))
                => ~DashboardAnalyzeTechStackView_post(body, api)]_vars

\* The Applications a step adds.
NewApplications == {applications'[a] : a \in DOMAIN applications' \ DOMAIN applications}

\* C11: in the Flask app and the core app apply_project creates an
\* Application only for a user whose role is 'applicant' when the request is
\* made; a request by a user with another role, or none, creates none.
C11_OnlyApplicantsApply ==
    [][/\ \A a \in NewApplications :
            variant \in {"flask", "core"} => role[a.applicant] = "applicant"
       /\ \A u \in Users, pid \in ProjectIds, m \in Methods, msg \in {"", "hi"} :
            (/\ resp'.op \in {"apply_project", "core.apply_project"}
             /\ role[u] # "applicant"
             /\ \/ apply_project(u, pid, m, msg)
                \/ core_apply_project(u, pid, m))
            => applications' = applications]_vars

\* C11 witness: an applicant's apply_project has stored an Application while
\* another user is a leader.
C11_Witness ==
    /\ variant \in {"flask", "core"}
    /\ resp.op \in {"apply_project", "core.apply_project"}
    /\ applications # <<>>
    /\ role[applications[Len(applications)].applicant] = "applicant"
    /\ \E u \in Users : role[u] = "leader"

\* The Projects a step adds.
NewProjects == {projects'[p] : p \in DOMAIN projects' \ DOMAIN projects}

\* C12: in the Flask app create_project adds a Project only for a user
\* whose role is 'leader' or 'company' when the request is made; a request
\* by an applicant or by a user without a role adds none.
C12_OnlyLeadersCreate ==
    [][/\ \A p \in NewProjects :
            variant = "flask" => role[p.creator] \in {"leader", "company"}
       /\ \A u \in Users, m \in Methods, filled \in BOOLEAN, t \in {"x", "0", "1"} :
            (/\ resp'.op = "create_project"
             /\ role[u] \notin {"leader", "company"}
             /\ create_project(u, m, filled, t, <<>>))
            => projects' = projects]_vars

\* C12 witness: a company's create_project has added a Project.
C12_Witness ==
    /\ variant = "flask"
    /\ resp.op = "create_project"
    /\ projects # <<>>
    /\ role[projects[Len(projects)].creator] = "company"

UpdateApplicationOps ==
    {"update_application", "core.update_application", "UpdateApplicationView.post"}

\* C13: in the three iterations a status update requested by a user who is
\* not the creator of the application's project leaves the application's
\* status and all memberships unchanged.
C13_OnlyCreatorUpdates ==
    [][\A u \in Users, aid \in DOMAIN applications, m \in Methods, s \in StatusInputs :
            (/\ resp'.op \in UpdateApplicationOps
             /\ projects[applications[aid].project].creator # u
             /\ \/ update_application(u, aid, s)
                \/ core_update_application(u, aid, m, s)
                \/ UpdateApplicationView_post(u, aid, s))
            => /\ applications' = applications
               /\ memberships' = memberships]_vars

\* C13 witness: core update_application has refused a user who is not the
\* creator, on an application that is still pending.
C13_Witness ==
    /\ resp.op = "core.update_application"
    /\ resp.status = FORBIDDEN
    /\ \E a \in DOMAIN applications : applications[a].status = "pending"

RoleSelectionOps == {"role_selection", "core.role_selection", "RoleSelectionView.post"}

\* C14: each user's role is unset or one of applicant, leader, company; role
\* selection in the three iterations stores the submitted role only when it
\* is one of the three and otherwise leaves the roles as they are.
C14_RoleIsChoiceOrUnset == \A u \in Users : role[u] \in ROLE_CHOICES \cup {NoRole}

C14_Roles ==
    /\ []C14_RoleIsChoiceOrUnset
    /\ [][\A u \in Users, m \in Methods, r \in RoleInputs :
            (/\ resp'.op \in RoleSelectionOps
             /\ \/ role_selection(u, m, r)
                \/ core_role_selection(u, m, r)
                \/ RoleSelectionView_post(u, r))
            => /\ role'[u] \in {role[u], r}
               /\ r \notin ROLE_CHOICES => role' = role]_vars

\* C14 witness: RoleSelectionView.post has turned down a submitted role
\* while a user holds a role.
C14_Witness ==
    /\ resp.op = "RoleSelectionView.post"
    /\ resp.status = OK
    /\ \E u \in Users : role[u] \in ROLE_CHOICES

\* C15: ManageProjectView.post called by a user who is not the project's
\* creator changes nothing, whatever action and parameters are submitted.
C15_OnlyCreatorManages ==
    [][\A u \in Users, pid \in DOMAIN projects, post \in ManagePosts :
            (/\ resp'.op = "ManageProjectView.post"
             /\ projects[pid].creator # u
             /\ ManageProjectView_post(u, pid, post))
            => UNCHANGED dbVars]_vars

\* C15 witness: ManageProjectView.post has answered while the project has a
\* member besides its creator, whom a remove_member could have named.
C15_Witness ==
    /\ resp.op = "ManageProjectView.post"
    /\ resp.status = REDIRECT
    /\ \E m \in memberships : m.user # projects[m.project].creator

\* C16: every project created through CreateProjectView.post keeps a
\* ProjectMembership for its creator; remove_member with the creator's id
\* deletes nothing, and with the id of another member deletes exactly that
\* member's membership.
C16_CreatorIsMember == \A pid \in DOMAIN projects : IsMember(projects[pid].creator, pid)

C16_CreatorStaysMember ==
    /\ []C16_CreatorIsMember
    /\ [][\A pid \in DOMAIN projects, member_id \in {n \in NumberInputs : IsInt(n)} :
            (/\ resp'.op = "ManageProjectView.post"
             /\ IsMember(ToInt(member_id), pid)
             /\ ManageProjectView_post(projects[pid].creator, pid,
                    ManagePost("remove_member", "", "", member_id, <<>>)))
            => memberships' =
                 IF ToInt(member_id) = projects[pid].creator THEN memberships
                 ELSE {m \in memberships :
                         ~(m.project = pid /\ m.user = ToInt(member_id))}]_vars

\* C16 witness: a remove_member has taken a member out and the creator is
\* the project's only member again, its accepted application still there.
C16_Witness ==
    /\ resp.op = "ManageProjectView.post"
    /\ \E a \in DOMAIN applications :
            /\ applications[a].status = "accepted"
            /\ ~IsMember(applications[a].applicant, applications[a].project)
            /\ IsMember(projects[applications[a].project].creator, applications[a].project)

\* C17: in the crewd app there is at most one Application per (project,
\* applicant) pair, for any sequence of ApplyProjectView.get and
\* ApplyProjectView.post; a second application of a user to a project is
\* never stored.
C17_OnePerPair ==
    variant = "crewd" =>
        \A a, b \in DOMAIN applications :
            (applications[a].project = applications[b].project
             /\ applications[a].applicant = applications[b].applicant) => a = b

C17_OneApplicationPerPairCrewd ==
    /\ []C17_OnePerPair
    /\ [][\A u \in Users, pid \in DOMAIN projects :
            (/\ resp'.op = "ApplyProjectView.post"
             /\ HasApplied(u, pid)
             /\ ApplyProjectView_post(u, pid))
            => applications' = applications]_vars

\* C17 witness: ApplyProjectView.post has been refused a second row for a
\* pair that has its Application.
C17_Witness ==
    /\ resp.op = "ApplyProjectView.post"
    /\ resp.status = SERVER_ERROR
    /\ applications # <<>>

\* C18: InviteContributorView.get creates an Invitation only when the
\* recipient has no Invitation, no Application and no ProjectMembership for
\* the project; when one of the three exists the request creates nothing
\* and leaves everything stored unchanged.
C18_InviteOnlyUninvolved ==
    [][/\ \A i \in invitations' \ invitations :
            i.status = "pending" =>
                /\ ~IsInvited(i.recipient, i.project)
                /\ ~HasApplied(i.recipient, i.project)
                /\ ~IsMember(i.recipient, i.project)
       /\ \A u \in Users, pid \in DOMAIN projects, uid \in Users :
            (/\ resp'.op = "InviteContributorView.get"
             /\ IsInvited(uid, pid) \/ HasApplied(uid, pid) \/ IsMember(uid, pid)
             /\ InviteContributorView_get(u, pid, uid))
            => UNCHANGED dbVars]_vars

\* C18 witness: InviteContributorView.get has answered its creator and
\* there is no Invitation, while a user other than the creator has applied:
\* the request was turned down.
C18_Witness ==
    /\ resp.op = "InviteContributorView.get"
    /\ resp.status = REDIRECT
    /\ invitations = {}
    /\ \E a \in DOMAIN applications :
            applications[a].applicant # projects[applications[a].project].creator

\* C19 (as claimed): accepting an application never attempts to create a
\* second ProjectMembership for a (project, user) pair, also when accept
\* requests overlap: no UpdateApplicationView.post ends in the IntegrityError
\* of the refused second row.
C19_NoSecondMembershipAttempt ==
    ~(resp.op = "UpdateApplicationView.post" /\ resp.status = SERVER_ERROR)

\* C20 (as claimed): the number of ProjectMembership rows of a project never
\* exceeds the project's team_size.
C20_MembersWithinTeamSize ==
    \A pid \in DOMAIN projects :
        Cardinality({m \in memberships : m.project = pid}) <= projects[pid].team_size

====
